---- MODULE Spec2Model ----
(***************************************************************************)
(* Model of cpp/fury/type/type.h: the TypeId enumeration (the wire-level   *)
(* type tags of the cross-language serialization format) and the           *)
(* classifier IsNamespacedType.                                            *)
(*                                                                         *)
(* Three specifications run the classifier:                                *)
(*   SpecSeq     one caller makes up to MaxCalls calls, each over every    *)
(*               probed int32 argument, each completed call recorded in    *)
(*               `history`;                                                *)
(*   SpecRepeat  one caller makes up to MaxRepeat calls over the arguments *)
(*               at the edges of the classifier's cases, so that calls     *)
(*               repeat an argument with other calls before and between;   *)
(*   Spec        NumThreads threads call the classifier with no            *)
(*               synchronization, each call split in its entry and its     *)
(*               switch/return step.                                       *)
(***************************************************************************)
EXTENDS Integers, Sequences, FiniteSets, TLC

VARIABLES
    registry,   \* the enumerators of TypeId as the build holds them: name -> value
    history,    \* SpecSeq, SpecRepeat: the completed calls, oldest first
    pc,         \* Spec: per thread, "idle" | "switch" | "done"
    type_id,    \* Spec: per thread, the parameter of the call in progress
    result      \* Spec: per thread, the value the last call returned

vars == <<registry, history, pc, type_id, result>>

-----------------------------------------------------------------------------
(* Bounds of the model.                                                    *)

\* SpecSeq: how many calls one behaviour makes.
MaxCalls == 2

\* SpecRepeat: how many calls one behaviour makes.
MaxRepeat == 3

\* SpecSeq: how far outside the defined tag values the probed arguments extend.
Margin == 1

\* Spec: how many threads call concurrently.
NumThreads == 2

-----------------------------------------------------------------------------
(* int32_t                                                                 *)

INT32_MAX == 2147483647
INT32_MIN == -2147483647 - 1

Int32 == INT32_MIN..INT32_MAX

-----------------------------------------------------------------------------
(* enum class TypeId : int32_t                                             *)

TypeId ==
    [ BOOL |-> 1,
      INT8 |-> 2,
      INT16 |-> 3,
      INT32 |-> 4,
      VAR_INT32 |-> 5,
      INT64 |-> 6,
      VAR_INT64 |-> 7,
      SLI_INT64 |-> 8,
      FLOAT16 |-> 9,
      FLOAT32 |-> 10,
      FLOAT64 |-> 11,
      STRING |-> 12,
      ENUM |-> 13,
      NS_ENUM |-> 14,
      STRUCT |-> 15,
      POLYMORPHIC_STRUCT |-> 16,
      COMPATIBLE_STRUCT |-> 17,
      POLYMORPHIC_COMPATIBLE_STRUCT |-> 18,
      NS_STRUCT |-> 19,
      NS_POLYMORPHIC_STRUCT |-> 20,
      NS_COMPATIBLE_STRUCT |-> 21,
      NS_POLYMORPHIC_COMPATIBLE_STRUCT |-> 22,
      EXT |-> 23,
      POLYMORPHIC_EXT |-> 24,
      NS_EXT |-> 25,
      NS_POLYMORPHIC_EXT |-> 26,
      LIST |-> 27,
      SET |-> 28,
      MAP |-> 29,
      DURATION |-> 30,
      TIMESTAMP |-> 31,
      LOCAL_DATE |-> 32,
      DECIMAL |-> 33,
      BINARY |-> 34,
      ARRAY |-> 35,
      BOOL_ARRAY |-> 36,
      INT8_ARRAY |-> 37,
      INT16_ARRAY |-> 38,
      INT32_ARRAY |-> 39,
      INT64_ARRAY |-> 40,
      FLOAT16_ARRAY |-> 41,
      FLOAT32_ARRAY |-> 42,
      FLOAT64_ARRAY |-> 43,
      ARROW_RECORD_BATCH |-> 44,
      ARROW_TABLE |-> 45 ]

\* static_cast<TypeId>(type_id): TypeId has the fixed underlying type int32_t, so
\* every int32_t value is a value of the enumeration and the cast keeps it (also
\* one that names no enumerator). The parameter is an int32_t by its type.
StaticCastTypeId(v) ==
    IF v \in Int32 THEN v ELSE CHOOSE w \in {} : TRUE

-----------------------------------------------------------------------------
(* inline bool IsNamespacedType(int32_t type_id)                           *)

\* Mutant: the case label NS_EXT is missing from the switch.
IsNamespacedTypeMissingCase(v) ==
    LET t == StaticCastTypeId(v) IN
    CASE t = TypeId.NS_ENUM -> TRUE
      [] t = TypeId.NS_STRUCT -> TRUE
      [] t = TypeId.NS_POLYMORPHIC_STRUCT -> TRUE
      [] t = TypeId.NS_COMPATIBLE_STRUCT -> TRUE
      [] t = TypeId.NS_POLYMORPHIC_COMPATIBLE_STRUCT -> TRUE
      [] t = TypeId.NS_POLYMORPHIC_EXT -> TRUE
      [] OTHER -> FALSE

\* Mutant: the switch replaced by a test of a 32-bit mask indexed with
\* type_id & 31, which takes an undefined value for the tag it aliases.
IsNamespacedTypeBitmask(v) ==
    (StaticCastTypeId(v) % 32) \in
        { TypeId.NS_ENUM, TypeId.NS_STRUCT, TypeId.NS_POLYMORPHIC_STRUCT,
          TypeId.NS_COMPATIBLE_STRUCT, TypeId.NS_POLYMORPHIC_COMPATIBLE_STRUCT,
          TypeId.NS_EXT, TypeId.NS_POLYMORPHIC_EXT }

\* Mutant: the switch replaced by the range test NS_STRUCT <= id <= NS_POLYMORPHIC_EXT,
\* which takes in EXT and POLYMORPHIC_EXT and leaves out NS_ENUM.
IsNamespacedTypeRange(v) ==
    LET t == StaticCastTypeId(v) IN
    TypeId.NS_STRUCT <= t /\ t <= TypeId.NS_POLYMORPHIC_EXT

\* Mutant: the result is a static that the cases set and the default leaves as
\* it is, so that once a call has returned true every later call does.
IsNamespacedTypeLatched(v) ==
    \/ \E i \in DOMAIN history : history[i].result
    \/ StaticCastTypeId(v) \in
            { TypeId.NS_ENUM, TypeId.NS_STRUCT, TypeId.NS_POLYMORPHIC_STRUCT,
              TypeId.NS_COMPATIBLE_STRUCT, TypeId.NS_POLYMORPHIC_COMPATIBLE_STRUCT,
              TypeId.NS_EXT, TypeId.NS_POLYMORPHIC_EXT }

IsNamespacedType(v) ==
    LET t == StaticCastTypeId(v) IN
    CASE t = TypeId.NS_ENUM -> TRUE
      [] t = TypeId.NS_STRUCT -> TRUE
      [] t = TypeId.NS_POLYMORPHIC_STRUCT -> TRUE
      [] t = TypeId.NS_COMPATIBLE_STRUCT -> TRUE
      [] t = TypeId.NS_POLYMORPHIC_COMPATIBLE_STRUCT -> TRUE
      [] t = TypeId.NS_EXT -> TRUE
      [] t = TypeId.NS_POLYMORPHIC_EXT -> TRUE
      [] OTHER -> FALSE

-----------------------------------------------------------------------------
(* Arguments                                                               *)

\* SpecSeq: every defined tag value, Margin values on either side, and the
\* out-of-range probes -1, 1000 and the two ends of int32_t.
Inputs ==
    ((TypeId.BOOL - Margin)..(TypeId.ARROW_TABLE + Margin))
        \cup {-1, 1000, INT32_MIN, INT32_MAX}

\* Spec, SpecRepeat: arguments on both sides of every edge of the classifier's
\* cases, and two undefined values.
EdgeInputs ==
    { TypeId.ENUM, TypeId.NS_ENUM, TypeId.STRUCT, TypeId.NS_STRUCT,
      TypeId.EXT, TypeId.NS_POLYMORPHIC_EXT, TypeId.LIST, 0, INT32_MIN }

Threads == 1..NumThreads

-----------------------------------------------------------------------------
(* State after static initialization: the enumeration as compiled, no call *)
(* made.                                                                   *)

\* The state outside the registry before any call.
NoCallMade ==
    /\ history = << >>
    /\ pc = [t \in Threads |-> "idle"]
    /\ type_id = [t \in Threads |-> 0]
    /\ result = [t \in Threads |-> FALSE]

\* Mutant: the enumerators LIST and SET carry each other's value.
InitSwapped ==
    /\ registry = [TypeId EXCEPT !.LIST = TypeId.SET, !.SET = TypeId.LIST]
    /\ NoCallMade

\* Mutant: NS_EXT is given the value of EXT again.
InitDuplicate ==
    /\ registry = [TypeId EXCEPT !.NS_EXT = TypeId.EXT]
    /\ NoCallMade

\* Mutant: the enumerators are numbered from 0 instead of 1.
InitFromZero ==
    /\ registry = [n \in DOMAIN TypeId |-> TypeId[n] - 1]
    /\ NoCallMade

\* Mutant: the enumerator NS_POLYMORPHIC_STRUCT is missing and ENUM has a
\* polymorphic form in its place.
InitEnumForm ==
    /\ registry = [n \in (DOMAIN TypeId \ {"NS_POLYMORPHIC_STRUCT"})
                        \cup {"POLYMORPHIC_ENUM"} |->
                    IF n = "POLYMORPHIC_ENUM" THEN TypeId.NS_POLYMORPHIC_STRUCT
                                              ELSE TypeId[n]]
    /\ NoCallMade

Init ==
    /\ registry = TypeId
    /\ NoCallMade

-----------------------------------------------------------------------------
(* SpecSeq, SpecRepeat: one caller.                                        *)

\* Mutant: a call given a value that names no enumerator enters it in the
\* registry.
ClassifyRegistering(v) ==
    /\ history' = Append(history, [type_id |-> v, result |-> IsNamespacedType(v)])
    /\ registry' = IF \E n \in DOMAIN registry : registry[n] = v
                   THEN registry
                   ELSE [registry EXCEPT !.ARROW_TABLE = v]
    /\ UNCHANGED <<pc, type_id, result>>

\* One whole call IsNamespacedType(v): it reads its parameter and the case
\* labels, writes nothing, and returns; the caller notes the call.
Classify(v) ==
    /\ history' = Append(history, [type_id |-> v, result |-> IsNamespacedType(v)])
    /\ UNCHANGED <<registry, pc, type_id, result>>

NextSeq ==
    /\ Len(history) < MaxCalls
    /\ \E v \in Inputs : Classify(v)

SpecSeq == Init /\ [][NextSeq]_vars

NextRepeat ==
    /\ Len(history) < MaxRepeat
    /\ \E v \in EdgeInputs : Classify(v)

SpecRepeat == Init /\ [][NextRepeat]_vars

-----------------------------------------------------------------------------
(* Spec: unsynchronized concurrent callers.                                *)

\* Thread t enters IsNamespacedType: the argument is copied into t's own
\* parameter (a by-value int32_t on t's stack).
Call(t, v) ==
    /\ pc[t] \in {"idle", "done"}
    /\ pc' = [pc EXCEPT ![t] = "switch"]
    /\ type_id' = [type_id EXCEPT ![t] = v]
    /\ UNCHANGED <<registry, history, result>>

\* Mutant: the parameter is kept in one static shared by every thread, so the
\* switch of t reads what the last thread to enter stored there.
ReturnSharedScratch(t) ==
    /\ pc[t] = "switch"
    /\ LET u == IF \E w \in Threads \ {t} : pc[w] = "switch"
                THEN CHOOSE w \in Threads \ {t} : pc[w] = "switch"
                ELSE t
       IN result' = [result EXCEPT ![t] = IsNamespacedType(type_id[u])]
    /\ pc' = [pc EXCEPT ![t] = "done"]
    /\ UNCHANGED <<registry, history, type_id>>

\* Thread t evaluates the switch on its own parameter and returns.
Return(t) ==
    /\ pc[t] = "switch"
    /\ result' = [result EXCEPT ![t] = IsNamespacedType(type_id[t])]
    /\ pc' = [pc EXCEPT ![t] = "done"]
    /\ UNCHANGED <<registry, history, type_id>>

Next ==
    \/ \E t \in Threads : \E v \in EdgeInputs : Call(t, v)
    \/ \E t \in Threads : Return(t)

Spec == Init /\ [][Next]_vars

-----------------------------------------------------------------------------
(* Vocabulary of the properties.                                           *)

\* The published wire values: the tag published with value i is PublishedTags[i].
PublishedTags ==
    << "BOOL", "INT8", "INT16", "INT32", "VAR_INT32", "INT64", "VAR_INT64",
       "SLI_INT64", "FLOAT16", "FLOAT32", "FLOAT64", "STRING", "ENUM", "NS_ENUM",
       "STRUCT", "POLYMORPHIC_STRUCT", "COMPATIBLE_STRUCT",
       "POLYMORPHIC_COMPATIBLE_STRUCT", "NS_STRUCT", "NS_POLYMORPHIC_STRUCT",
       "NS_COMPATIBLE_STRUCT", "NS_POLYMORPHIC_COMPATIBLE_STRUCT", "EXT",
       "POLYMORPHIC_EXT", "NS_EXT", "NS_POLYMORPHIC_EXT", "LIST", "SET", "MAP",
       "DURATION", "TIMESTAMP", "LOCAL_DATE", "DECIMAL", "BINARY", "ARRAY",
       "BOOL_ARRAY", "INT8_ARRAY", "INT16_ARRAY", "INT32_ARRAY", "INT64_ARRAY",
       "FLOAT16_ARRAY", "FLOAT32_ARRAY", "FLOAT64_ARRAY", "ARROW_RECORD_BATCH",
       "ARROW_TABLE" >>

\* The defined range of tag values.
DefinedRange == 1..45

\* The seven namespaced tag values.
NamespacedValues == {14, 19, 20, 21, 22, 25, 26}

\* The forms of a named type, as prefixes of the family's name, and the tag of a
\* family in a form, namespaced or not.
Forms == {"", "POLYMORPHIC_", "COMPATIBLE_", "POLYMORPHIC_COMPATIBLE_"}
Families == {"ENUM", "STRUCT", "EXT"}
PlainTag(form, family) == form \o family
NsTag(form, family) == "NS_" \o form \o family

\* The tags of a family the registry holds, without and with the namespace flag.
UnnamespacedTags(family) ==
    {PlainTag(form, family) : form \in Forms} \cap DOMAIN registry
NamespacedTags(family) ==
    {NsTag(form, family) : form \in Forms} \cap DOMAIN registry
FamilyTags(family) == UnnamespacedTags(family) \cup NamespacedTags(family)

\* The tags that carry a value.
TagsOf(v) == {n \in DOMAIN registry : registry[n] = v}

\* The completed calls of the single caller.
Calls == {history[i] : i \in DOMAIN history}

-----------------------------------------------------------------------------
(* Properties.                                                             *)

\* C1: every completed call IsNamespacedType(v) returned true if and only if v is
\* one of 14, 19, 20, 21, 22, 25, 26; so false for the other 38 values of 1..45
\* and for every probed value outside 1..45.
C1_ClassifierExact ==
    \A c \in Calls : c.result = (c.type_id \in NamespacedValues)

\* C1 witness: a namespaced tag value was classified true and its neighbour, a
\* defined value that is not namespaced, false.
C1_Witness ==
    /\ [type_id |-> 26, result |-> TRUE] \in Calls
    /\ [type_id |-> 27, result |-> FALSE] \in Calls

\* C2: every symbolic tag has exactly its published integer value, BOOL = 1
\* through ARROW_TABLE = 45, and the registry holds no other tag.
C2_PublishedValues ==
    /\ DOMAIN registry = {PublishedTags[i] : i \in DOMAIN PublishedTags}
    /\ \A i \in DOMAIN PublishedTags : registry[PublishedTags[i]] = i

\* C2 witness: a thread has classified the value the registry gives NS_STRUCT, and
\* the first and last tags carry 1 and 45.
C2_Witness ==
    /\ registry["BOOL"] = 1 /\ registry["ARROW_TABLE"] = 45
    /\ \E t \in Threads :
          pc[t] = "done" /\ type_id[t] = registry["NS_STRUCT"] /\ type_id[t] = 19

\* C3: the registry is injective: two distinct tags never carry the same value,
\* so a defined value identifies exactly one tag.
C3_Injective ==
    /\ \A n1, n2 \in DOMAIN registry : n1 # n2 => registry[n1] # registry[n2]
    /\ \A n \in DOMAIN registry : TagsOf(registry[n]) = {n}

\* C3 witness: two threads were given the values of the adjacent tags ENUM and
\* NS_ENUM, which differ, and were answered differently.
C3_Witness ==
    /\ registry["ENUM"] # registry["NS_ENUM"]
    /\ \E t, u \in Threads :
          /\ pc[t] = "done" /\ type_id[t] = registry["ENUM"] /\ ~result[t]
          /\ pc[u] = "done" /\ type_id[u] = registry["NS_ENUM"] /\ result[u]

\* C4: a call with a value that is not defined in the registry (v < 1 or v > 45)
\* completes with the boolean false.
C4_UndefinedIsFalse ==
    \A c \in Calls :
        c.type_id \notin DefinedRange => c.result \in BOOLEAN /\ c.result = FALSE

\* C4 witness: the minimum and the maximum int32 values were both classified, and
\* both calls returned false.
C4_Witness ==
    /\ [type_id |-> INT32_MIN, result |-> FALSE] \in Calls
    /\ [type_id |-> INT32_MAX, result |-> FALSE] \in Calls

\* C5 as stated: enum and struct each exist in the four forms plain, polymorphic,
\* compatible and polymorphic+compatible, each form both unnamespaced and
\* namespaced, so that enum has eight tags and struct has eight tags.
C5_EnumAndStructEightTags ==
    \A family \in {"ENUM", "STRUCT"} :
        /\ \A form \in Forms :
              /\ PlainTag(form, family) \in DOMAIN registry
              /\ NsTag(form, family) \in DOMAIN registry
        /\ Cardinality(FamilyTags(family)) = 8

\* C5 amended: struct exists in the four forms, each both as an unnamespaced and
\* as a namespaced tag, so struct has eight tags; enum exists in the plain form
\* only, as the unnamespaced tag ENUM and the namespaced tag NS_ENUM, so enum
\* has two tags.
C5_StructEightEnumTwo ==
    /\ \A form \in Forms :
          /\ PlainTag(form, "STRUCT") \in DOMAIN registry
          /\ NsTag(form, "STRUCT") \in DOMAIN registry
    /\ Cardinality(FamilyTags("STRUCT")) = 8
    /\ FamilyTags("ENUM") = {"ENUM", "NS_ENUM"}
    /\ Cardinality(FamilyTags("ENUM")) = 2

\* C5 witness: the registry holds the last struct form in both flavours and no
\* polymorphic enum, and threads were given a namespaced struct and the
\* namespaced enum.
C5_Witness ==
    /\ {"POLYMORPHIC_COMPATIBLE_STRUCT", "NS_POLYMORPHIC_COMPATIBLE_STRUCT"}
          \subseteq DOMAIN registry
    /\ "POLYMORPHIC_ENUM" \notin DOMAIN registry
    /\ \E t, u \in Threads :
          /\ pc[t] = "done" /\ type_id[t] = registry["NS_STRUCT"] /\ result[t]
          /\ pc[u] = "done" /\ type_id[u] = registry["NS_ENUM"] /\ result[u]

C7_ConcurrentCallsIndependent ==
    \A t \in Threads :
        pc[t] = "done" => result[t] = (type_id[t] \in NamespacedValues)

\* C7 witness: a thread has returned true for a namespaced value while another
\* thread is inside a call with a value that is not namespaced.
C7_Witness ==
    \E t, u \in Threads :
        /\ t # u
        /\ pc[t] = "done" /\ type_id[t] \in NamespacedValues /\ result[t]
        /\ pc[u] = "switch" /\ type_id[u] \notin NamespacedValues

\* C8: no call changes the registry: over every step the set of tags and the
\* value of each tag stay those of the compiled enumeration, and the step's only
\* effect is the boolean result of the call it completes.
C8_RegistryImmutable ==
    [][ /\ registry' = registry
        /\ DOMAIN registry' = DOMAIN TypeId
        /\ \A n \in DOMAIN TypeId : registry'[n] = TypeId[n]
        /\ <<pc, type_id, result>>' = <<pc, type_id, result>>
        /\ Len(history') = Len(history) + 1
        /\ SubSeq(history', 1, Len(history)) = history ]_vars

\* C8 witness: calls were made, one of them with a value that names no tag, and
\* the registry is the compiled enumeration.
C8_Witness ==
    /\ Len(history) >= 2
    /\ \E c \in Calls : TagsOf(c.type_id) = {}
    /\ registry = TypeId

\* C9: the defined tag values are exactly the range 1..45 with no gap: there are
\* 45 tags, every v in 1..45 is the value of exactly one tag, and no tag has the
\* value 0, a negative value or a value above 45.
C9_ContiguousRange ==
    /\ Cardinality(DOMAIN registry) = 45
    /\ \A v \in DefinedRange : Cardinality(TagsOf(v)) = 1
    /\ \A n \in DOMAIN registry : registry[n] \in DefinedRange

\* C9 witness: threads were given the value just below the range and a value
\* inside it; no tag carries the first and one tag carries the second.
C9_Witness ==
    \E t, u \in Threads :
        /\ pc[t] = "done" /\ type_id[t] = 0 /\ TagsOf(type_id[t]) = {}
        /\ pc[u] = "done" /\ type_id[u] = 27 /\ TagsOf(type_id[u]) = {"LIST"}

\* C10: a call that returned true was given the value of a tag NS_<X> whose
\* counterpart <X> is a tag the classifier answers false for, and the value is the
\* counterpart's plus the number of unnamespaced forms of the family: 1 for enum,
\* 4 for struct, 2 for extension. Conversely a call given the value of an enum,
\* struct or extension tag without the NS_ prefix returned false.
C10_NamespacedCounterparts ==
    /\ Cardinality(UnnamespacedTags("ENUM")) = 1
    /\ Cardinality(UnnamespacedTags("STRUCT")) = 4
    /\ Cardinality(UnnamespacedTags("EXT")) = 2
    /\ \A c \in Calls :
          c.result =>
              \E family \in Families : \E form \in Forms :
                  /\ NsTag(form, family) \in TagsOf(c.type_id)
                  /\ PlainTag(form, family) \in DOMAIN registry
                  /\ c.type_id = registry[PlainTag(form, family)]
                                    + Cardinality(UnnamespacedTags(family))
                  /\ \A d \in Calls :
                        d.type_id = registry[PlainTag(form, family)] => ~d.result
    /\ \A c \in Calls :
          (\E family \in Families :
              \E n \in UnnamespacedTags(family) : registry[n] = c.type_id)
                  => ~c.result

\* C10 witness: NS_POLYMORPHIC_EXT was classified true and its counterpart
\* POLYMORPHIC_EXT false.
C10_Witness ==
    /\ [type_id |-> registry["NS_POLYMORPHIC_EXT"], result |-> TRUE] \in Calls
    /\ [type_id |-> registry["POLYMORPHIC_EXT"], result |-> FALSE] \in Calls

====
